---- MODULE Spec2Model ----
(***************************************************************************)
(* trackcpp: the tracker (track_elementpass, track_linepass,               *)
(* track_ringpass of include/trackcpp/tracking.h) and the flat files       *)
(* (read_flat_file, write_flat_file of src/flat_file.cpp, with             *)
(* Element::operator==) as state machines.                                 *)
(*                                                                         *)
(* Phase-space components are doubles in the code.  Here a component is a  *)
(* finite integer value F(n) or one of the non-finite values NaN, PInf,    *)
(* NInf, with the IEEE-754 rules for sums, products and comparisons.       *)
(* A behaviour of Spec is one tracking call on an accelerator built at     *)
(* Init.  A behaviour of SpecFlatFile writes an Accelerator to a file      *)
(* and reads it, or reads a hand-written file line by line, and then       *)
(* compares two elements.                                                  *)
(***************************************************************************)
EXTENDS Integers, Sequences, FiniteSets, TLC

\* ---------------------------------------------------------------- bounds
\* longest lattice built at construction
MaxN == 2
\* largest number of turns a caller asks of track_ringpass
MaxTurns == 2

\* ------------------------------------------------------ double arithmetic
\* a double: a finite value F(n), or NaN, +infinity, -infinity
F(n) == [k |-> "fin", v |-> n]
NaN  == [k |-> "nan", v |-> 0]
PInf == [k |-> "inf", v |-> 1]
NInf == [k |-> "inf", v |-> -1]

\* stand-in for DBL_MAX: larger than every finite coordinate the model reaches
DBL_MAX == 1000000

isfinite(a) == a.k = "fin"

Sign(a) == IF a.v > 0 THEN 1 ELSE IF a.v < 0 THEN -1 ELSE 0

Neg(a) == [k |-> a.k, v |-> 0 - a.v]

Add(a, b) ==
  CASE a = NaN \/ b = NaN                 -> NaN
    [] isfinite(a) /\ isfinite(b)         -> F(a.v + b.v)
    [] isfinite(a)                        -> b
    [] isfinite(b)                        -> a
    [] a = b                              -> a
    [] OTHER                              -> NaN

Mul(a, b) ==
  CASE a = NaN \/ b = NaN                       -> NaN
    [] isfinite(a) /\ isfinite(b)               -> F(a.v * b.v)
    [] Sign(a) * Sign(b) = 0                    -> NaN
    [] Sign(a) * Sign(b) > 0                    -> PInf
    [] OTHER                                    -> NInf

\* a < b on doubles: false as soon as one side is NaN
Lt(a, b) ==
  CASE a = NaN \/ b = NaN               -> FALSE
    [] isfinite(a) /\ isfinite(b)       -> a.v < b.v
    [] a = b                            -> FALSE
    [] OTHER                            -> a = NInf \/ b = PInf

Gt(a, b) == Lt(b, a)

\* ------------------------------------------------------------ data model
Pos(rx, px, ry, py, de, dl) ==
  [rx |-> rx, px |-> px, ry |-> ry, py |-> py, de |-> de, dl |-> dl]

nan_pos == Pos(NaN, NaN, NaN, NaN, NaN, NaN)

\* Status::type
success                    == "success"
passmethod_not_defined     == "passmethod_not_defined"
particle_lost              == "particle_lost"
kicktable_out_of_range     == "kicktable_out_of_range"

\* Plane::type
PlaneNone == "no_plane"
PlaneX    == "x"
PlaneY    == "y"
Plane     == {PlaneNone, PlaneX, PlaneY}

\* PassMethod tags (Element::pass_method is an int: any value can be stored)
pm_identity_pass              == "identity_pass"
pm_drift_pass                 == "drift_pass"
pm_str_mpole_symplectic4_pass == "str_mpole_symplectic4_pass"
pm_bnd_mpole_symplectic4_pass == "bnd_mpole_symplectic4_pass"
pm_corrector_pass             == "corrector_pass"
pm_cavity_pass                == "cavity_pass"
pm_thinquad_pass              == "thinquad_pass"
pm_thinsext_pass              == "thinsext_pass"
pm_kicktable_pass             == "kicktable_pass"
pm_out_of_enum                == "out_of_enum"

\* Element::default_polynom
default_polynom == <<0, 0, 0>>

\* class Element with the in-class defaults, as the constructor leaves it:
\* a drift of the given name and length with an unlimited aperture.
\* Apertures are doubles; length, kicks, strengths and polynomial
\* coefficients are integers here.  xlim is the half-width of the (square)
\* grid of the element's kicktable (0: no kicktable).  The fields left out
\* hold their defaults in every element of the model: zero misalignment
\* vectors t_in, t_out, identity rotations r_in, r_out.
Element(fam_name_, length_) ==
  [fam_name |-> fam_name_, pass_method |-> pm_drift_pass, length |-> length_,
   nr_steps |-> 1,
   hmin |-> F(0 - DBL_MAX), hmax |-> F(DBL_MAX),
   vmin |-> F(0 - DBL_MAX), vmax |-> F(DBL_MAX),
   hkick |-> 0, vkick |-> 0, angle |-> 0, angle_in |-> 0, angle_out |-> 0,
   gap |-> 0, fint_in |-> 0, fint_out |-> 0, thin_KL |-> 0, thin_SL |-> 0,
   frequency |-> 0, voltage |-> 0,
   polynom_a |-> default_polynom, polynom_b |-> default_polynom, xlim |-> 0]

\* ---------------------------------------------------- pass-method library
\* (passmethods.h is not among the sources: the maps follow the design text)
Result(st, p) == [status |-> st, pos |-> p]

\* field-free transport over len for a particle with de = 0 (1/(1+de) = 1);
\* a non-finite de makes every transported component non-finite
DriftMap(p, len) ==
  LET norml == IF isfinite(p.de) THEN F(len) ELSE NaN
  IN  [p EXCEPT !.rx = Add(p.rx, Mul(norml, p.px)),
                !.ry = Add(p.ry, Mul(norml, p.py)),
                !.dl = Add(p.dl, Mul(norml, Add(Mul(p.px, p.px), Mul(p.py, p.py))))]

pm_identity_pass_f(p, el) == Result(success, p)

pm_drift_pass_f(p, el) == Result(success, DriftMap(p, el.length))

\* zero polynomials: every kick of the integrator vanishes, slices are drifts
pm_str_mpole_symplectic4_pass_f(p, el) == Result(success, DriftMap(p, el.length))

\* zero angle and zero polynomials: the sector segments are drifts
pm_bnd_mpole_symplectic4_pass_f(p, el) == Result(success, DriftMap(p, el.length))

\* half drift, kick, half drift (length is 0 or even in the model)
pm_corrector_pass_f(p, el) ==
  LET h  == el.length \div 2
      p1 == DriftMap(p, h)
      p2 == [p1 EXCEPT !.px = Add(p1.px, F(el.hkick)),
                       !.py = Add(p1.py, F(el.vkick))]
  IN  Result(success, DriftMap(p2, h))

\* zero voltage: the energy kick vanishes, two half drifts remain
pm_cavity_pass_f(p, el) ==
  LET h == el.length \div 2 IN Result(success, DriftMap(DriftMap(p, h), h))

pm_thinquad_pass_f(p, el) ==
  Result(success, [p EXCEPT !.px = Add(p.px, Neg(Mul(F(el.thin_KL), p.rx))),
                            !.py = Add(p.py, Mul(F(el.thin_KL), p.ry))])

pm_thinsext_pass_f(p, el) ==
  Result(success,
         [p EXCEPT !.px = Add(p.px, Neg(Mul(F(el.thin_SL),
                               Add(Mul(p.rx, p.rx), Neg(Mul(p.ry, p.ry)))))),
                   !.py = Add(p.py, Mul(F(2 * el.thin_SL), Mul(p.rx, p.ry)))])

\* offsets outside the sampled grid fail and leave the particle as it was;
\* inside, the interpolated kicks (hkick, vkick on the model's flat table)
\* are added to the angles
pm_kicktable_pass_f(p, el) ==
  LET inside(a) == ~Lt(a, F(0 - el.xlim)) /\ ~Gt(a, F(el.xlim)) /\ a # NaN
  IN  IF inside(p.rx) /\ inside(p.ry)
      THEN Result(success, [p EXCEPT !.px = Add(p.px, F(el.hkick)),
                                     !.py = Add(p.py, F(el.vkick))])
      ELSE Result(kicktable_out_of_range, p)

\* ------------------------------------------------------ track_elementpass
track_elementpass(el, orig) ==
  CASE el.pass_method = pm_identity_pass              -> pm_identity_pass_f(orig, el)
    [] el.pass_method = pm_drift_pass                 -> pm_drift_pass_f(orig, el)
    [] el.pass_method = pm_str_mpole_symplectic4_pass -> pm_str_mpole_symplectic4_pass_f(orig, el)
    [] el.pass_method = pm_bnd_mpole_symplectic4_pass -> pm_bnd_mpole_symplectic4_pass_f(orig, el)
    [] el.pass_method = pm_corrector_pass             -> pm_corrector_pass_f(orig, el)
    [] el.pass_method = pm_cavity_pass                -> pm_cavity_pass_f(orig, el)
    [] el.pass_method = pm_thinquad_pass              -> pm_thinquad_pass_f(orig, el)
    [] el.pass_method = pm_thinsext_pass              -> pm_thinsext_pass_f(orig, el)
    [] el.pass_method = pm_kicktable_pass             -> pm_kicktable_pass_f(orig, el)
    [] OTHER                                          -> Result(passmethod_not_defined, orig)

\* ------------------------------------------------------------------ inputs
\* the elements a lattice of the model is built from, by fam_name
FamNames == {"marker", "drift", "kicktable", "undefined"}

ElementOf(fam) ==
  CASE fam = "marker" ->
         [Element(fam, 0) EXCEPT !.pass_method = pm_identity_pass]
    [] fam = "drift" ->
         [Element(fam, 1) EXCEPT !.hmin = F(-1), !.hmax = F(1), !.vmin = F(-1), !.vmax = F(1)]
    [] fam = "kicktable" ->
         [Element(fam, 0) EXCEPT !.pass_method = pm_kicktable_pass, !.xlim = 1, !.hkick = 1,
                            !.hmin = F(-1), !.hmax = F(1)]
    [] fam = "undefined" ->
         [Element(fam, 0) EXCEPT !.pass_method = pm_out_of_enum,
                            !.hmin = F(-1), !.hmax = F(1), !.vmin = F(-1), !.vmax = F(1)]

\* a lattice is the sequence of its elements' fam_names
Lattices == UNION {[1..n -> FamNames] : n \in 0..MaxN}

\* what a read past the end of the lattice vector may yield
StrayElements == {"marker", "undefined"}

\* initial coordinates a caller passes
Positions ==
  { Pos(F(0), F(0), F(0), F(0), F(0), F(0)),
    Pos(F(0), F(0), F(-1), F(-1), F(0), F(0)),
    Pos(F(-2), F(0), F(2), F(0), F(0), F(0)),
    Pos(F(0), NaN,  F(0), F(0), F(0), F(0)),
    Pos(F(0), F(0), F(0), PInf, F(0), F(0)),
    Pos(F(0), F(0), NaN,  F(0), F(0), F(0)) }

\* starting element indices a caller passes: inside every lattice, and past
\* the end of some
Offsets == 0..MaxN

\* what a caller may leave in the output container before a call
mark_pos == Pos(F(7), F(7), F(7), F(7), F(7), F(7))

Containers == {<<>>, <<mark_pos>>}

\* -------------------------------------------------------------- flat files
\* Status::type values of the flat-file functions
file_not_found   == "file_not_found"
flat_file_error  == "flat_file_error"

\* pm_dict: the names of the pass methods, by tag
pm_dict ==
  <<pm_identity_pass, pm_drift_pass, pm_str_mpole_symplectic4_pass,
    pm_bnd_mpole_symplectic4_pass, pm_corrector_pass, pm_cavity_pass,
    pm_thinquad_pass, pm_thinsext_pass, pm_kicktable_pass>>

\* A line of a flat file, as the reader's extractions see it: the first word
\* cmd, then what follows it -- a word s (a name, or a header key), a second
\* word t (a header's boolean), an integer n, a double d, or (order, value)
\* pairs -- and whether whitespace follows the last token (sp).  Numbers are
\* printed with 18 significant digits, enough for a double to be read back
\* as the value printed: a number token stands for its value.
Line(cmd_, s_, t_, n_, d_, pairs_, sp_) ==
  [cmd |-> cmd_, s |-> s_, t |-> t_, n |-> n_, d |-> d_, pairs |-> pairs_, sp |-> sp_]

WordLine(cmd_, s_)        == Line(cmd_, s_, "", 0, F(0), <<>>, FALSE)
IntLine(cmd_, n_)         == Line(cmd_, "", "", n_, F(0), <<>>, FALSE)
DblLine(cmd_, d_)         == Line(cmd_, "", "", 0, d_, <<>>, FALSE)
PolyLine(cmd_, pairs_, sp_) == Line(cmd_, "", "", 0, F(0), pairs_, sp_)
HdrInt(key_, n_)          == Line("%", key_, "", n_, F(0), <<>>, FALSE)
HdrBool(key_, t_)         == Line("%", key_, t_, 0, F(0), <<>>, FALSE)
BlankLine                 == WordLine("", "")
CommentLine               == WordLine("###", "")

\* get_boolean_string (lines 403-408)
get_boolean_string(value) == IF value THEN "true" ELSE "false"

\* read_boolean_string (lines 394-401)
read_boolean_string(t_) == t_ = "true"

\* has_polynom (lines 435-441)
has_polynom(p) == \E k \in 1..Len(p) : p[k] # 0

\* the orders (from 0) of the non-zero coefficients of p, ascending
RECURSIVE NonZeroPairs(_, _)
NonZeroPairs(p, k) ==
  IF k > Len(p) THEN <<>>
  ELSE IF p[k] # 0 THEN <<<<k - 1, p[k]>>>> \o NonZeroPairs(p, k + 1)
       ELSE NonZeroPairs(p, k + 1)

\* write_polynom (lines 450-460): "order value " for every non-zero coefficient
write_polynom(label, p) == PolyLine(label, NonZeroPairs(p, 1), TRUE)

\* the line of a parameter, written when the condition holds
LineIf(cond, line) == IF cond THEN <<line>> ELSE <<>>

\* lines 82-85: an aperture line is written when the value is not 0
write_aperture(el) ==
     LineIf(el.hmin # F(0), DblLine("hmin", el.hmin))
  \o LineIf(el.hmax # F(0), DblLine("hmax", el.hmax))
  \o LineIf(el.vmin # F(0), DblLine("vmin", el.vmin))
  \o LineIf(el.vmax # F(0), DblLine("vmax", el.vmax))

\* the parameters with a line of their own and the default 0, in the order
\* write_flat_file writes them (lines 86-95)
ScalarKeys ==
  <<"hkick", "vkick", "angle", "gap", "fint_in", "fint_out", "voltage", "frequency",
    "angle_in", "angle_out">>

\* lines 86-95: a parameter is written when it is not 0
RECURSIVE write_scalars(_, _)
write_scalars(el, k) ==
  IF k > Len(ScalarKeys) THEN <<>>
  ELSE LineIf(el[ScalarKeys[k]] # 0, IntLine(ScalarKeys[k], el[ScalarKeys[k]]))
       \o write_scalars(el, k + 1)

\* lines 68-115: the lines of one element (thin_KL, thin_SL and the kicktable
\* have no line)
write_element(el) ==
     <<CommentLine, WordLine("fam_name", el.fam_name), IntLine("length", el.length),
       WordLine("pass_method", el.pass_method)>>
  \o LineIf(el.nr_steps # 1, IntLine("nr_steps", el.nr_steps))
  \o LineIf(has_polynom(el.polynom_a), write_polynom("polynom_a", el.polynom_a))
  \o LineIf(has_polynom(el.polynom_b), write_polynom("polynom_b", el.polynom_b))
  \o write_aperture(el)
  \o write_scalars(el, 1)
  \o <<BlankLine>>

RECURSIVE write_lattice(_)
write_lattice(lat) ==
  IF lat = <<>> THEN <<>> ELSE write_element(Head(lat)) \o write_lattice(Tail(lat))

\* lines 58-116: the text write_flat_file puts in the file
write_text(acc) ==
     <<HdrInt("energy", acc.energy), HdrInt("harmonic_number", acc.harmonic_number),
       HdrBool("cavity_on", get_boolean_string(acc.cavity_on)),
       HdrBool("radiation_on", get_boolean_string(acc.radiation_on)),
       HdrBool("vchamber_on", get_boolean_string(acc.vchamber_on)),
       BlankLine>>
  \o write_lattice(acc.lattice)

\* (mutation: the name is not compared)
ElementEq_NoName(a, b) ==
  /\ a.pass_method = b.pass_method
  /\ a.length = b.length
  /\ a.hmin = b.hmin /\ a.hmax = b.hmax /\ a.vmin = b.vmin /\ a.vmax = b.vmax
  /\ a.nr_steps = b.nr_steps
  /\ \/ a.pass_method \in {pm_drift_pass, pm_identity_pass}
     \/ /\ \A k \in 1..Len(ScalarKeys) : a[ScalarKeys[k]] = b[ScalarKeys[k]]
        /\ a.thin_KL = b.thin_KL /\ a.thin_SL = b.thin_SL
        /\ a.polynom_a = b.polynom_a /\ a.polynom_b = b.polynom_b
        /\ a.xlim = b.xlim

\* Element::operator== on two distinct objects
ElementEq(a, b) ==
  /\ a.fam_name = b.fam_name
  /\ a.pass_method = b.pass_method
  /\ a.length = b.length
  /\ a.hmin = b.hmin /\ a.hmax = b.hmax /\ a.vmin = b.vmin /\ a.vmax = b.vmax
  /\ a.nr_steps = b.nr_steps
  /\ \/ a.pass_method \in {pm_drift_pass, pm_identity_pass}
     \/ /\ \A k \in 1..Len(ScalarKeys) : a[ScalarKeys[k]] = b[ScalarKeys[k]]
        /\ a.thin_KL = b.thin_KL /\ a.thin_SL = b.thin_SL
        /\ a.polynom_a = b.polynom_a /\ a.polynom_b = b.polynom_b
        /\ a.xlim = b.xlim

\* the factory functions and the initialize_* routines they call; a polynomial
\* is indexed from 1 here, from 0 in the code
marker(fam_name_) == [Element(fam_name_, 0) EXCEPT !.pass_method = pm_identity_pass]

bpm(fam_name_) == [Element(fam_name_, 0) EXCEPT !.pass_method = pm_identity_pass]

drift(fam_name_, length_) ==
  [Element(fam_name_, length_) EXCEPT !.pass_method = pm_drift_pass]

corrector(fam_name_, length_, hkick_, vkick_) ==
  [Element(fam_name_, length_) EXCEPT !.pass_method = pm_corrector_pass,
                                      !.hkick = hkick_, !.vkick = vkick_]

quadrupole(fam_name_, length_, K_, nr_steps_) ==
  [Element(fam_name_, length_) EXCEPT !.pass_method = pm_str_mpole_symplectic4_pass,
                                      !.polynom_b[2] = K_, !.nr_steps = nr_steps_]

sextupole(fam_name_, length_, S_, nr_steps_) ==
  [Element(fam_name_, length_) EXCEPT !.pass_method = pm_str_mpole_symplectic4_pass,
                                      !.polynom_b[3] = S_, !.nr_steps = nr_steps_]

\* with the default polynomials and zero edge angles, gap and fringe integrals
rbend(fam_name_, length_, angle_, K_, S_, nr_steps_) ==
  [Element(fam_name_, length_) EXCEPT !.pass_method = pm_bnd_mpole_symplectic4_pass,
                                      !.angle = angle_,
                                      !.polynom_b[2] = K_, !.polynom_b[3] = S_,
                                      !.nr_steps = nr_steps_]

rfcavity(fam_name_, length_, frequency_, voltage_) ==
  [Element(fam_name_, length_) EXCEPT !.pass_method = pm_cavity_pass,
                                      !.frequency = frequency_, !.voltage = voltage_]

\* ------------------------------------------------------ flat-file inputs
\* an Accelerator: the header fields and the lattice
Accelerator(energy_, harmonic_number_, cavity_on_, radiation_on_, vchamber_on_, lattice_) ==
  [energy |-> energy_, harmonic_number |-> harmonic_number_, cavity_on |-> cavity_on_,
   radiation_on |-> radiation_on_, vchamber_on |-> vchamber_on_, lattice |-> lattice_]

\* elements a program puts in a lattice before writing it
FileElements ==
  { drift("d1", 1),
    Element("", 0),
    [marker("m") EXCEPT !.hmin = F(-1), !.hmax = F(1), !.vmin = F(-2), !.vmax = F(2)],
    [drift("d0", 2) EXCEPT !.hmin = F(0), !.hmax = F(1)],
    [Element("sx", 0) EXCEPT !.pass_method = pm_thinsext_pass, !.thin_SL = 1],
    quadrupole("q", 1, 2, 10),
    corrector("ch", 0, 1, 0),
    drift("d2", 1),
    [drift("d1", 1) EXCEPT !.hkick = 1, !.polynom_b = <<0, 0, 0, 4>>],
    [drift("d1", 1) EXCEPT !.nr_steps = 2],
    [marker("m") EXCEPT !.hmin = F(-1), !.hmax = F(1), !.vmin = F(-2), !.vmax = F(2),
                        !.vkick = 1] }

FileLattices == UNION {[1..n -> FileElements] : n \in 0..MaxN}

Accelerators ==
  { Accelerator(3, 864, c, FALSE, c, lat) : c \in BOOLEAN, lat \in FileLattices }

\* blocks of lines a hand-written file is made of
FileBlocks ==
  { <<HdrInt("energy", 5), HdrBool("vchamber_on", "true"), HdrBool("cavity_on", "no"),
      HdrInt("harmonic_number", 7), HdrBool("radiation_on", "true"),
      HdrInt("comment", 0), CommentLine, BlankLine>>,
    <<WordLine("fam_name", "a"), DblLine("hmax", F(1)), DblLine("vmax", F(2))>>,
    <<WordLine("fam_name", "b"), DblLine("hmin", F(-2)), DblLine("vmin", F(-3))>>,
    <<WordLine("fam_name", "c"), DblLine("hmin", F(-2)), DblLine("hmax", F(1)),
      DblLine("vmin", F(-3)), DblLine("vmax", F(2)), WordLine("t_in", "")>>,
    <<WordLine("fam_name", "n"), DblLine("hmax", F(-1)), DblLine("vmax", F(-2))>>,
    <<WordLine("fam_name", ""), IntLine("hkick", 1), IntLine("length", 2)>>,
    <<WordLine("fam_name", "p"), WordLine("pass_method", pm_bnd_mpole_symplectic4_pass),
      PolyLine("polynom_b", <<<<1, 5>>, <<3, 6>>>>, TRUE), IntLine("nr_steps", 20),
      IntLine("angle", 1)>>,
    <<WordLine("fam_name", "r"), PolyLine("polynom_a", <<<<3, 7>>>>, TRUE),
      PolyLine("polynom_a", <<<<0, 5>>>>, TRUE)>>,
    <<WordLine("fam_name", "t"), PolyLine("polynom_b", <<<<0, 4>>, <<1, 5>>>>, FALSE)>>,
    <<WordLine("fam_name", "k"), WordLine("pass_method", pm_kicktable_pass)>>,
    <<WordLine("fam_name", "u"), WordLine("pass_method", "bogus_pass")>>,
    <<WordLine("fam_name", "x"), IntLine("thin_SL", 1)>>,
    <<WordLine("x", "")>> }

RECURSIVE Flatten(_)
Flatten(blocks) ==
  IF blocks = <<>> THEN <<>> ELSE Head(blocks) \o Flatten(Tail(blocks))

\* the hand-written files: up to MaxN blocks
Files == { Flatten(bs) : bs \in UNION {[1..n -> FileBlocks] : n \in 0..MaxN} }

\* what add_kicktable may return (kicktable.h is not among the sources)
KicktableStatuses == {success, file_not_found}

\* ------------------------------------------------------------------- state
VARIABLES
  lattice, vchamber_on,        \* the Accelerator
  orig_pos, pos, element_offset, lost_plane, lost_turn,  \* the caller's variables
  pc,                          \* "idle", "line", "ring", "ring_ret", "crashed"
  i, trajectory, caller,       \* track_linepass: loop index, flag, who called
  line_status,                 \* what the inner track_linepass returned to track_ringpass
  nr_turns, ring_trajectory, final_pos,   \* track_ringpass: arguments and local vector
  ret,                         \* status the last finished call returned ("none" while running)
  op,                          \* the call of this run: "none" (not made yet), "line", "ring"
  pos0, x0, offset0, plane0,   \* the call's arguments, as passed
  hist,                        \* the element passes of the running or last track_linepass, in order
  failed,                      \* status of the first element pass of the call that failed ("none")
  late,                        \* element passes of the call made after one had failed
  turn_end,                    \* track_ringpass: the particle after each turn completed so far
  accelerator,                 \* the Accelerator read_flat_file / write_flat_file work on
  file_exists, file,           \* the flat file: whether it can be opened, and its lines
  e, found_hmin, found_vmin,   \* read_flat_file_trackcpp: its locals
  line_count,                  \* lines of the file read so far
  fpc,                         \* "idle", "reading"
  fop,                         \* flat-file calls made so far, in order: "write", "read"
  fret,                        \* status the last flat-file call returned ("none" before)
  accelerator0,                \* the Accelerator as constructed
  committed,                   \* elements the running or last read pushed to the lattice
  cmp                          \* the comparison a program made: operands and result

vars == <<lattice, vchamber_on, orig_pos, pos, element_offset, lost_plane, lost_turn,
          pc, i, trajectory, caller, line_status, nr_turns, ring_trajectory, final_pos,
          ret, op, pos0, x0, offset0, plane0, hist, failed, late, turn_end,
          accelerator, file_exists, file, e, found_hmin, found_vmin, line_count,
          fpc, fop, fret, accelerator0, committed, cmp>>

\* what the tracker leaves alone: the flat-file side
filevars == <<accelerator, file_exists, file, e, found_hmin, found_vmin, line_count,
              fpc, fop, fret, accelerator0, committed, cmp>>

\* what the flat-file functions leave alone: the tracker side
trackvars == <<lattice, vchamber_on, orig_pos, pos, element_offset, lost_plane,
               lost_turn, pc, i, trajectory, caller, line_status, nr_turns,
               ring_trajectory, final_pos, ret, op, pos0, x0, offset0, plane0, hist,
               failed, late, turn_end>>

nr_elements == Len(lattice)

\* no tracking call made yet
TrackerIdle ==
  /\ orig_pos = Pos(F(0), F(0), F(0), F(0), F(0), F(0))
  /\ pos = <<>>
  /\ element_offset = 0
  /\ lost_plane = PlaneNone
  /\ lost_turn = 0
  /\ pc = "idle"
  /\ i = 0
  /\ trajectory = FALSE
  /\ caller = "user"
  /\ line_status = success
  /\ nr_turns = 0
  /\ ring_trajectory = FALSE
  /\ final_pos = <<>>
  /\ ret = "none"
  /\ op = "none"
  /\ pos0 = <<>>
  /\ x0 = orig_pos
  /\ offset0 = 0
  /\ plane0 = PlaneNone
  /\ hist = <<>>
  /\ failed = "none"
  /\ late = 0
  /\ turn_end = <<>>

\* no flat-file call made yet
FlatFileIdle ==
  /\ e = Element("", 0)
  /\ found_hmin = FALSE
  /\ found_vmin = FALSE
  /\ line_count = 0
  /\ fpc = "idle"
  /\ fop = <<>>
  /\ fret = "none"
  /\ accelerator0 = accelerator
  /\ committed = <<>>
  /\ cmp = <<>>

\* the tracker's Accelerator is (lattice, vchamber_on); the flat-file
\* functions are left out of a tracking behaviour
Init ==
  /\ lattice \in Lattices
  /\ vchamber_on \in BOOLEAN
  /\ TrackerIdle
  /\ accelerator = Accelerator(0, 0, FALSE, FALSE, FALSE, <<>>)
  /\ file_exists = FALSE
  /\ file = <<>>
  /\ FlatFileIdle

\* ---------------------------------------------------------- track_linepass
\* (mutation: the placeholders are not pushed)
Prefill_None(c, traj, n) == c

\* lines 110-114: with trajectory, one NaN entry per element is pushed
Prefill(c, traj, n) == IF traj THEN c \o [j \in 1..n |-> nan_pos] ELSE c

\* (mutation: the entrance coordinate is stored one slot too far)
StoreEntrance_OffByOne(c, k, p, traj) == IF traj THEN [c EXCEPT ![k + 2] = p] ELSE c

\* line 121: the entrance coordinate goes to pos[i], counted from the front
StoreEntrance(c, k, p, traj) == IF traj THEN [c EXCEPT ![k + 1] = p] ELSE c

\* (mutation: the comparison with hmax is missing)
LostX_NoUpperBound(p, el, vch) ==
  (~isfinite(p.rx)) \/ (vch /\ Lt(p.rx, el.hmin))

\* (mutation: the finiteness test is missing)
LostX_ApertureOnly(p, el, vch) ==
  vch /\ (Lt(p.rx, el.hmin) \/ Gt(p.rx, el.hmax))

\* lines 126-129
LostX(p, el, vch) ==
  (~isfinite(p.rx)) \/ (vch /\ (Lt(p.rx, el.hmin) \/ Gt(p.rx, el.hmax)))

\* (mutation: the aperture is checked whatever vchamber_on is)
LostY_IgnoringSwitch(p, el, vch) ==
  (~isfinite(p.ry)) \/ Lt(p.ry, el.vmin) \/ Gt(p.ry, el.vmax)

\* lines 134-137
LostY(p, el, vch) ==
  (~isfinite(p.ry)) \/ (vch /\ (Lt(p.ry, el.vmin) \/ Gt(p.ry, el.vmax)))

\* lines 130 and 138: the loss marker
MarkLost(c) == Append(c, nan_pos)

\* (mutation: a loss always reports particle_lost)
LostStatus_AlwaysLost(st) == particle_lost

\* lines 132 and 140
LostStatus(st) == IF st = success THEN particle_lost ELSE st

\* (mutation: the offset does not wrap at the end of the lattice)
NextOffset_NoWrap(off, n) == off + 1

\* line 146
NextOffset(off, n) == (off + 1) % n

\* (mutation: the offset moves on before the checks)
OffsetAfter_Always(off, n, returned) == (off + 1) % n

\* lines 132-146: the offset moves on only when the body did not return
OffsetAfter(off, n, returned) == IF returned THEN off ELSE NextOffset(off, n)

\* (mutation: the status of the pass is examined before the loss check)
LoopBody_StatusFirst(c, p, r, off, plane, el, k, traj, vch, n) ==
  LET c1 == StoreEntrance(c, k, p, traj)
  IN  CASE r.status # success ->
             [pos |-> c1, orig_pos |-> r.pos,
              element_offset |-> OffsetAfter(off, n, TRUE),
              lost_plane |-> plane, returned |-> TRUE, status |-> r.status,
              el_status |-> r.status]
        [] LostX(r.pos, el, vch) ->
             [pos |-> MarkLost(c1), orig_pos |-> r.pos,
              element_offset |-> OffsetAfter(off, n, TRUE),
              lost_plane |-> PlaneX, returned |-> TRUE, status |-> LostStatus(r.status),
              el_status |-> r.status]
        [] LostY(r.pos, el, vch) ->
             [pos |-> MarkLost(c1), orig_pos |-> r.pos,
              element_offset |-> OffsetAfter(off, n, TRUE),
              lost_plane |-> PlaneY, returned |-> TRUE, status |-> LostStatus(r.status),
              el_status |-> r.status]
        [] OTHER ->
             [pos |-> c1, orig_pos |-> r.pos,
              element_offset |-> OffsetAfter(off, n, FALSE),
              lost_plane |-> plane, returned |-> FALSE, status |-> success,
              el_status |-> r.status]

\* One pass through the loop body (lines 118-146) on container c, particle p,
\* offset off, verdict plane, with element el, r being what track_elementpass
\* (line 122) made of p: the new values, whether the function returned, and
\* what.
LoopBody(c, p, r, off, plane, el, k, traj, vch, n) ==
  LET c1 == StoreEntrance(c, k, p, traj)
  IN  CASE LostX(r.pos, el, vch) ->
             [pos |-> MarkLost(c1), orig_pos |-> r.pos,
              element_offset |-> OffsetAfter(off, n, TRUE),
              lost_plane |-> PlaneX, returned |-> TRUE, status |-> LostStatus(r.status),
              el_status |-> r.status]
        [] LostY(r.pos, el, vch) ->
             [pos |-> MarkLost(c1), orig_pos |-> r.pos,
              element_offset |-> OffsetAfter(off, n, TRUE),
              lost_plane |-> PlaneY, returned |-> TRUE, status |-> LostStatus(r.status),
              el_status |-> r.status]
        [] r.status # success ->
             [pos |-> c1, orig_pos |-> r.pos,
              element_offset |-> OffsetAfter(off, n, TRUE),
              lost_plane |-> plane, returned |-> TRUE, status |-> r.status,
              el_status |-> r.status]
        [] OTHER ->
             [pos |-> c1, orig_pos |-> r.pos,
              element_offset |-> OffsetAfter(off, n, FALSE),
              lost_plane |-> plane, returned |-> FALSE, status |-> success,
              el_status |-> r.status]

\* the container track_linepass works on: the caller's, or track_ringpass's local
Container == IF caller = "ring" THEN final_pos ELSE pos

SetContainer(c) ==
  IF caller = "ring" THEN final_pos' = c /\ pos' = pos
                     ELSE pos' = c /\ final_pos' = final_pos

\* track_linepass returns st to its caller
LineReturn(st) ==
  IF caller = "ring"
  THEN pc' = "ring_ret" /\ line_status' = st /\ ret' = ret
  ELSE pc' = "idle" /\ ret' = st /\ line_status' = line_status

\* the loop body with the element read from the lattice: the element is
\* read once (line 118), track_elementpass is called once (line 122)
LineStep(fam) ==
  \E el \in {ElementOf(fam)} :
  \E r \in {track_elementpass(el, orig_pos)} :
  \E b \in {LoopBody(Container, orig_pos, r, element_offset, lost_plane, el, i,
                     trajectory, vchamber_on, nr_elements)} :
      /\ SetContainer(b.pos)
      /\ orig_pos' = b.orig_pos
      /\ element_offset' = b.element_offset
      /\ lost_plane' = b.lost_plane
      /\ hist' = Append(hist, [idx |-> element_offset, fam |-> fam,
                               before |-> orig_pos, after |-> b.orig_pos,
                               st |-> b.el_status])
      /\ failed' = IF failed = "none" /\ b.el_status # success THEN b.el_status ELSE failed
      /\ late' = IF failed # "none" THEN late + 1 ELSE late
      /\ IF b.returned
         THEN LineReturn(b.status) /\ i' = i
         ELSE /\ i' = i + 1
              /\ UNCHANGED <<pc, ret, line_status>>
      /\ UNCHANGED <<lattice, vchamber_on, lost_turn, trajectory, caller, nr_turns,
                     ring_trajectory, op, pos0, x0, offset0, plane0, turn_end,
                     filevars>>

\* a caller invokes track_linepass (lines 103-114)
LinePassCall ==
  /\ pc = "idle"
  /\ op = "none"
  /\ \E x \in Positions, off \in Offsets, traj \in BOOLEAN,
        c \in Containers, plane \in {PlaneNone, PlaneY} :
       /\ orig_pos' = x
       /\ pos' = Prefill(c, traj, nr_elements)
       /\ element_offset' = off
       /\ lost_plane' = plane
       /\ lost_turn' = 0
       /\ pc' = "line"
       /\ i' = 0
       /\ trajectory' = traj
       /\ caller' = "user"
       /\ line_status' = success
       /\ nr_turns' = 0
       /\ ring_trajectory' = FALSE
       /\ final_pos' = <<>>
       /\ ret' = "none"
       /\ op' = "line"
       /\ pos0' = c
       /\ x0' = x
       /\ offset0' = off
       /\ plane0' = plane
       /\ hist' = <<>>
       /\ failed' = "none"
       /\ late' = 0
       /\ turn_end' = <<>>
       /\ UNCHANGED <<lattice, vchamber_on, filevars>>

\* one iteration, line[element_offset] inside the vector
LineIter ==
  /\ pc = "line"
  /\ i < nr_elements
  /\ element_offset < nr_elements
  /\ LineStep(lattice[element_offset + 1])

\* one iteration, line[element_offset] past the end of the vector (the index
\* is not checked): the read yields whatever lies there, or the process dies
LineIterOutOfRange ==
  /\ pc = "line"
  /\ i < nr_elements
  /\ element_offset >= nr_elements
  /\ \/ \E fam \in StrayElements : LineStep(fam)
     \/ /\ pc' = "crashed"
        /\ UNCHANGED <<lattice, vchamber_on, orig_pos, pos, element_offset, lost_plane,
                       lost_turn, i, trajectory, caller, line_status, nr_turns,
                       ring_trajectory, final_pos, ret, op, pos0, x0, offset0, plane0,
                       hist, failed, late, turn_end, filevars>>

\* after the loop (lines 150-155)
LineExit ==
  /\ pc = "line"
  /\ i = nr_elements
  /\ lost_plane' = PlaneNone
  /\ SetContainer(Append(Container, orig_pos))
  /\ LineReturn(success)
  /\ UNCHANGED <<lattice, vchamber_on, orig_pos, element_offset, lost_turn, i,
                 trajectory, caller, nr_turns, ring_trajectory, op, pos0, x0, offset0,
                 plane0, hist, failed, late, turn_end, filevars>>

\* ---------------------------------------------------------- track_ringpass
\* (mutation: a failed turn does not end the call)
TurnFailed_Never(status) == FALSE

\* line 192: the test on what the turn's track_linepass returned
TurnFailed(status) == status # success

\* (mutation: the turn-by-turn data are not stored)
TurnStore_Never(c, p, traj) == c

\* lines 195-197: turn-by-turn data
TurnStore(c, p, traj) == IF traj THEN Append(c, p) ELSE c

\* (mutation: the final position is stored whatever the flag)
FinalStore_Always(c, p, traj) == Append(c, p)

\* lines 200-203: only the final position when no trajectory is asked for
FinalStore(c, p, traj) == IF ~traj THEN Append(c, p) ELSE c

\* a caller invokes track_ringpass (lines 188-191, loop initialisation)
RingPassCall ==
  /\ pc = "idle"
  /\ op = "none"
  /\ \E x \in Positions, turns \in 0..MaxTurns, off \in Offsets, traj \in BOOLEAN,
        c \in Containers, plane \in {PlaneNone, PlaneY} :
       /\ orig_pos' = x
       /\ pos' = c
       /\ element_offset' = off
       /\ lost_plane' = plane
       /\ lost_turn' = 0
       /\ pc' = "ring"
       /\ i' = 0
       /\ trajectory' = FALSE
       /\ caller' = "ring"
       /\ line_status' = success
       /\ nr_turns' = turns
       /\ ring_trajectory' = traj
       /\ final_pos' = <<>>
       /\ ret' = "none"
       /\ op' = "ring"
       /\ pos0' = c
       /\ x0' = x
       /\ offset0' = off
       /\ plane0' = plane
       /\ hist' = <<>>
       /\ failed' = "none"
       /\ late' = 0
       /\ turn_end' = <<>>
       /\ UNCHANGED <<lattice, vchamber_on, filevars>>

\* loop test true: the turn's track_linepass is entered (line 192),
\* trajectory false, on the local vector final_pos
RingTurn ==
  /\ pc = "ring"
  /\ lost_turn < nr_turns
  /\ final_pos' = Prefill(final_pos, FALSE, nr_elements)
  /\ trajectory' = FALSE
  /\ i' = 0
  /\ pc' = "line"
  /\ hist' = <<>>
  /\ UNCHANGED <<lattice, vchamber_on, orig_pos, pos, element_offset, lost_plane,
                 lost_turn, caller, line_status, nr_turns, ring_trajectory, ret, op,
                 pos0, x0, offset0, plane0, failed, late, turn_end, filevars>>

\* the turn's track_linepass has returned (lines 192-198)
RingAfterLine ==
  /\ pc = "ring_ret"
  /\ IF TurnFailed(line_status)
     THEN /\ pc' = "idle"
          /\ ret' = line_status
          /\ UNCHANGED <<pos, lost_turn, turn_end>>
     ELSE /\ pos' = TurnStore(pos, orig_pos, ring_trajectory)
          /\ turn_end' = Append(turn_end, orig_pos)
          /\ lost_turn' = lost_turn + 1
          /\ pc' = "ring"
          /\ ret' = ret
  /\ UNCHANGED <<lattice, vchamber_on, orig_pos, element_offset, lost_plane, i,
                 trajectory, caller, line_status, nr_turns, ring_trajectory, final_pos,
                 op, pos0, x0, offset0, plane0, hist, failed, late, filevars>>

\* loop test false (lines 200-204)
RingExit ==
  /\ pc = "ring"
  /\ lost_turn >= nr_turns
  /\ pos' = FinalStore(pos, orig_pos, ring_trajectory)
  /\ pc' = "idle"
  /\ ret' = line_status
  /\ UNCHANGED <<lattice, vchamber_on, orig_pos, element_offset, lost_plane, lost_turn,
                 i, trajectory, caller, line_status, nr_turns, ring_trajectory,
                 final_pos, op, pos0, x0, offset0, plane0, hist, failed, late, turn_end,
                 filevars>>

Next ==
  \/ LinePassCall
  \/ LineIter
  \/ LineIterOutOfRange
  \/ LineExit
  \/ RingPassCall
  \/ RingTurn
  \/ RingAfterLine
  \/ RingExit

Spec == Init /\ [][Next]_vars

\* --------------------------------------------------------- write_flat_file
\* write_flat_file (lines 50-121): the file cannot be created (line 53), or
\* it is replaced by the text of the Accelerator
WriteFlatFile ==
  /\ fpc = "idle"
  /\ fop = <<>>
  /\ cmp = <<>>
  /\ \/ /\ fret' = file_not_found
        /\ fop' = <<"write_failed">>
        /\ UNCHANGED <<file_exists, file>>
     \/ /\ file' = write_text(accelerator)
        /\ file_exists' = TRUE
        /\ fret' = success
        /\ fop' = <<"write">>
  /\ UNCHANGED <<accelerator, e, found_hmin, found_vmin, line_count, fpc, accelerator0,
                 committed, cmp, trackvars>>

\* ------------------------------------------------- read_flat_file_trackcpp
\* the first words that start with '#' (line 140)
HashWords == {"#", "###"}

\* the keys of the lines that fill t_in, t_out, r_in, r_out (lines 184-197)
VectorKeys ==
  {"t_in", "t_out", "rx|r_in", "px|r_in", "ry|r_in", "py|r_in", "de|r_in", "dl|r_in",
   "rx|r_out", "px|r_out", "ry|r_out", "py|r_out", "de|r_out", "dl|r_out"}

\* the keys whose line is one integer or double stored in the field of that
\* name (lines 158, 173-183)
PlainKeys == {"length", "nr_steps"} \cup {ScalarKeys[k] : k \in 1..Len(ScalarKeys)}

\* every first word the reader knows
KnownKeys ==
  HashWords \cup {"%", "fam_name", "hmin", "hmax", "vmin", "vmax", "pass_method",
                  "polynom_a", "polynom_b"} \cup PlainKeys \cup VectorKeys

\* line.size() < 2 (line 252): the empty line, and a line of one character
ShortLine(line) == line \in {BlankLine, WordLine("x", "")}

\* std::vector::resize(n, 0)
Resize(p, n) == [k \in 1..n |-> IF k <= Len(p) THEN p[k] ELSE 0]

\* synchronize_polynomials (lines 371-377)
synchronize_polynomials(el) ==
  LET size == IF Len(el.polynom_a) > Len(el.polynom_b)
              THEN Len(el.polynom_a) ELSE Len(el.polynom_b)
  IN  [el EXCEPT !.polynom_a = Resize(@, size), !.polynom_b = Resize(@, size)]

\* lines 222-227: the pairs the extraction loop keeps.  After the last value
\* is extracted the stream is at its end unless whitespace follows it, and
\* 'if (ss.eof()) break' then leaves the loop before the pair is stored.
ParsedPairs(line) ==
  IF line.sp \/ line.pairs = <<>> THEN line.pairs
  ELSE SubSeq(line.pairs, 1, Len(line.pairs) - 1)

\* line 226: size is the largest order + 1
RECURSIVE PolySize(_)
PolySize(pairs) ==
  IF pairs = <<>> THEN 0
  ELSE LET rest == PolySize(Tail(pairs))
           here == Head(pairs)[1] + 1
       IN  IF here > rest THEN here ELSE rest

\* line 230: the coefficients are stored in the order given
RECURSIVE SetCoeffs(_, _)
SetCoeffs(p, pairs) ==
  IF pairs = <<>> THEN p
  ELSE SetCoeffs([p EXCEPT ![Head(pairs)[1] + 1] = Head(pairs)[2]], Tail(pairs))

\* lines 219-231 (and 236-248): the polynomial after its line
read_polynom(p, line) ==
  LET pairs == ParsedPairs(line)
      size  == PolySize(pairs)
  IN  IF size > 0 THEN SetCoeffs(Resize(p, size), pairs) ELSE p

\* (mutation: the lattice of the Accelerator is kept)
ClearLattice_Kept(acc) == acc

\* line 128
ClearLattice(acc) == [acc EXCEPT !.lattice = <<>>]

\* lines 161-162 (and 168-169): the upper limit, and the lower one when no
\* line gave it since the last upper limit
read_max(el, found, kmin, kmax, d) ==
  IF found THEN [el EXCEPT ![kmax] = d]
  ELSE [el EXCEPT ![kmax] = d, ![kmin] = Neg(d)]

\* the line getline has just read (line 135)
ThisLine == file[line_count + 1]

\* a line is there to read
Reading == fpc = "reading" /\ line_count < Len(file)

\* 'continue': the next line, nothing else changes
Continue ==
  /\ line_count' = line_count + 1
  /\ UNCHANGED <<file_exists, file, fpc, fop, fret, accelerator0, cmp, trackvars>>

\* lines 125-134: the file cannot be opened, or the lattice is cleared and the
\* locals are initialised
ReadOpen ==
  /\ fpc = "idle"
  /\ fop \in {<<>>, <<"write">>, <<"write_failed">>}
  /\ cmp = <<>>
  /\ fop' = Append(fop, "read")
  /\ IF ~file_exists
     THEN /\ fret' = file_not_found
          /\ UNCHANGED <<accelerator, e, found_hmin, found_vmin, line_count, fpc,
                         committed>>
     ELSE /\ accelerator' = ClearLattice(accelerator)
          /\ e' = Element("", 0)
          /\ found_hmin' = FALSE
          /\ found_vmin' = FALSE
          /\ line_count' = 0
          /\ committed' = <<>>
          /\ fpc' = "reading"
          /\ fret' = "none"
  /\ UNCHANGED <<file_exists, file, accelerator0, cmp, trackvars>>

\* line 140: a comment
ReadComment ==
  /\ Reading
  /\ ThisLine.cmd \in HashWords
  /\ Continue
  /\ UNCHANGED <<accelerator, e, found_hmin, found_vmin, committed>>

\* lines 141-149: a header line; an unknown header key is skipped
ReadHeader ==
  /\ Reading
  /\ ThisLine.cmd = "%"
  /\ accelerator' =
       CASE ThisLine.s = "energy" -> [accelerator EXCEPT !.energy = ThisLine.n]
         [] ThisLine.s = "harmonic_number" ->
              [accelerator EXCEPT !.harmonic_number = ThisLine.n]
         [] ThisLine.s = "cavity_on" ->
              [accelerator EXCEPT !.cavity_on = read_boolean_string(ThisLine.t)]
         [] ThisLine.s = "radiation_on" ->
              [accelerator EXCEPT !.radiation_on = read_boolean_string(ThisLine.t)]
         [] ThisLine.s = "vchamber_on" ->
              [accelerator EXCEPT !.vchamber_on = read_boolean_string(ThisLine.t)]
         [] OTHER -> accelerator
  /\ Continue
  /\ UNCHANGED <<e, found_hmin, found_vmin, committed>>

\* lines 150-157: the element read so far is pushed if it has a name, and
\* only then is e a new Element; the name of the line is stored
ReadFamName ==
  /\ Reading
  /\ ThisLine.cmd = "fam_name"
  /\ IF e.fam_name # ""
     THEN /\ accelerator' = [accelerator EXCEPT !.lattice = Append(@, e)]
          /\ committed' = Append(committed, [line |-> line_count + 1, el |-> e])
          /\ e' = [Element("", 0) EXCEPT !.fam_name = ThisLine.s]
     ELSE /\ e' = [e EXCEPT !.fam_name = ThisLine.s]
          /\ UNCHANGED <<accelerator, committed>>
  /\ Continue
  /\ UNCHANGED <<found_hmin, found_vmin>>

\* lines 158, 173-183: a number stored in the field of the key
ReadPlain ==
  /\ Reading
  /\ ThisLine.cmd \in PlainKeys
  /\ e' = [e EXCEPT ![ThisLine.cmd] = ThisLine.n]
  /\ Continue
  /\ UNCHANGED <<accelerator, found_hmin, found_vmin, committed>>

\* lines 184-197: a line of t_in, t_out, r_in or r_out (fields the model
\* leaves out)
ReadVector ==
  /\ Reading
  /\ ThisLine.cmd \in VectorKeys
  /\ Continue
  /\ UNCHANGED <<accelerator, e, found_hmin, found_vmin, committed>>

\* line 159
ReadHmin ==
  /\ Reading
  /\ ThisLine.cmd = "hmin"
  /\ e' = [e EXCEPT !.hmin = ThisLine.d]
  /\ found_hmin' = TRUE
  /\ Continue
  /\ UNCHANGED <<accelerator, found_vmin, committed>>

\* lines 160-165
ReadHmax ==
  /\ Reading
  /\ ThisLine.cmd = "hmax"
  /\ e' = read_max(e, found_hmin, "hmin", "hmax", ThisLine.d)
  /\ found_hmin' = FALSE
  /\ Continue
  /\ UNCHANGED <<accelerator, found_vmin, committed>>

\* line 166
ReadVmin ==
  /\ Reading
  /\ ThisLine.cmd = "vmin"
  /\ e' = [e EXCEPT !.vmin = ThisLine.d]
  /\ found_vmin' = TRUE
  /\ Continue
  /\ UNCHANGED <<accelerator, found_hmin, committed>>

\* lines 167-172
ReadVmax ==
  /\ Reading
  /\ ThisLine.cmd = "vmax"
  /\ e' = read_max(e, found_vmin, "vmin", "vmax", ThisLine.d)
  /\ found_vmin' = FALSE
  /\ Continue
  /\ UNCHANGED <<accelerator, found_hmin, committed>>

\* the function returns st: the stream is closed, the locals are gone
ReadReturn(st) ==
  /\ fret' = st
  /\ fpc' = "idle"
  /\ UNCHANGED <<file_exists, file, fop, accelerator0, cmp, trackvars, line_count>>

\* lines 198-217: a name of pm_dict is stored as the tag, and a kicktable
\* pass loads the table named after the element, which may fail; any other
\* name ends the read
ReadPassMethod ==
  /\ Reading
  /\ ThisLine.cmd = "pass_method"
  /\ IF \E k \in 1..Len(pm_dict) : pm_dict[k] = ThisLine.s
     THEN IF ThisLine.s = pm_kicktable_pass
          THEN \E st \in KicktableStatuses :
                 IF st # success
                 THEN /\ e' = [e EXCEPT !.pass_method = ThisLine.s]
                      /\ ReadReturn(st)
                 ELSE /\ e' = [e EXCEPT !.pass_method = ThisLine.s, !.xlim = 1]
                      /\ Continue
          ELSE /\ e' = [e EXCEPT !.pass_method = ThisLine.s]
               /\ Continue
     ELSE /\ ReadReturn(passmethod_not_defined)
          /\ UNCHANGED e
  /\ UNCHANGED <<accelerator, found_hmin, found_vmin, committed>>

\* lines 218-251
ReadPolynom ==
  /\ Reading
  /\ ThisLine.cmd \in {"polynom_a", "polynom_b"}
  /\ \E p \in {read_polynom(e[ThisLine.cmd], ThisLine)} :
       e' = synchronize_polynomials([e EXCEPT ![ThisLine.cmd] = p])
  /\ Continue
  /\ UNCHANGED <<accelerator, found_hmin, found_vmin, committed>>

\* lines 252-253: no key matched
ReadOther ==
  /\ Reading
  /\ ThisLine.cmd \notin KnownKeys
  /\ IF ShortLine(ThisLine) THEN Continue ELSE ReadReturn(flat_file_error)
  /\ UNCHANGED <<accelerator, e, found_hmin, found_vmin, committed>>

\* lines 256-261: end of file; the element read last is pushed if it has a name
ReadEof ==
  /\ fpc = "reading"
  /\ line_count = Len(file)
  /\ IF e.fam_name # ""
     THEN /\ accelerator' = [accelerator EXCEPT !.lattice = Append(@, e)]
          /\ committed' = Append(committed, [line |-> line_count + 1, el |-> e])
     ELSE UNCHANGED <<accelerator, committed>>
  /\ ReadReturn(success)
  /\ UNCHANGED <<e, found_hmin, found_vmin>>

\* the elements of a lattice
Elements(lat) == {lat[k] : k \in 1..Len(lat)}

\* a program compares two elements it holds, of the Accelerator it built or
\* of the one read, with Element::operator== (two distinct objects)
CompareElements ==
  /\ fpc = "idle"
  /\ cmp = <<>>
  /\ \E a, b \in Elements(accelerator0.lattice) \cup Elements(accelerator.lattice) :
       cmp' = <<[a |-> a, b |-> b, equal |-> ElementEq(a, b)]>>
  /\ UNCHANGED <<accelerator, file_exists, file, e, found_hmin, found_vmin, line_count,
                 fpc, fop, fret, accelerator0, committed, trackvars>>

\* the Accelerator a program has built, and the file it finds: none, or a
\* hand-written one
InitFlatFile ==
  /\ lattice = <<>>
  /\ vchamber_on = FALSE
  /\ TrackerIdle
  /\ \/ /\ accelerator \in Accelerators
        /\ file_exists = FALSE
        /\ file = <<>>
     \/ /\ accelerator \in {Accelerator(3, 864, TRUE, FALSE, TRUE, <<drift("d1", 1)>>)}
        /\ file_exists = TRUE
        /\ file \in Files
  /\ FlatFileIdle

NextFlatFile ==
  \/ WriteFlatFile
  \/ ReadOpen
  \/ ReadComment
  \/ ReadHeader
  \/ ReadFamName
  \/ ReadPlain
  \/ ReadVector
  \/ ReadHmin
  \/ ReadHmax
  \/ ReadVmin
  \/ ReadVmax
  \/ ReadPassMethod
  \/ ReadPolynom
  \/ ReadOther
  \/ ReadEof
  \/ CompareElements

SpecFlatFile == InitFlatFile /\ [][NextFlatFile]_vars

\* ------------------------------------------------------------------ claims
\* vocabulary of the properties below
LineDone == op = "line" /\ pc = "idle"
RingDone == op = "ring" /\ pc = "idle"

\* the running or last track_linepass has returned, and what it returned
LineReturned == op # "none" /\ pc \in {"idle", "ring_ret"}
LineRet      == IF caller = "ring" THEN line_status ELSE ret

\* length of the container at the entry of the running or last track_linepass
EntryLen == IF caller = "ring" THEN lost_turn ELSE Len(pos0)

\* the coordinate after the j-th element pass leaves that element's aperture
OutH(h) ==
  LET el == ElementOf(h.fam)
  IN  Lt(h.after.rx, el.hmin) \/ Gt(h.after.rx, el.hmax)

OutV(h) ==
  LET el == ElementOf(h.fam)
  IN  Lt(h.after.ry, el.vmin) \/ Gt(h.after.ry, el.vmax)

LastPass == hist[Len(hist)]

\* the caller's starting index names an element of the lattice
InRange == offset0 < nr_elements

\* C1 (as claimed): track_linepass leaves the entries the caller already put
\* in the output container where they were, unchanged, at every moment of the
\* call and on return; what it records comes after them.  (Stated for calls
\* whose starting index is inside the lattice.)
C1_CallerEntriesKept ==
  (op = "line" /\ InRange) =>
    /\ Len(pos) >= Len(pos0)
    /\ \A j \in 1..Len(pos0) : pos[j] = pos0[j]

\* C2: a track_linepass with trajectory = true that returns success has added
\* N + 1 entries to the container; container entries 0..N-1 hold the
\* coordinates at the entrance of the elements visited, in order, the last
\* entry holds the coordinate after the last element, and from an empty
\* container that last entry is entry N of a sequence of length N + 1.
C2_TrajectoryOnSuccess ==
  (LineDone /\ trajectory /\ ret = success) =>
    /\ Len(hist) = nr_elements
    /\ Len(pos) = Len(pos0) + nr_elements + 1
    /\ \A j \in 1..nr_elements : pos[j] = hist[j].before
    /\ pos[Len(pos)] = orig_pos
    /\ orig_pos = (IF nr_elements = 0 THEN x0 ELSE LastPass.after)
    /\ \A j \in 2..nr_elements : hist[j].before = hist[j - 1].after
    /\ (nr_elements > 0 => hist[1].before = x0)
    /\ (pos0 = <<>> => Len(pos) = nr_elements + 1 /\ pos[nr_elements + 1] = orig_pos)

C2_Witness ==
  /\ LineDone /\ trajectory /\ ret = success
  /\ pos0 = <<>>
  /\ nr_elements = 2
  /\ pos[1] # pos[2]
  /\ pos[2] # pos[3]

\* C3 (as claimed): a track_linepass with trajectory = true that loses the
\* particle at the element of iteration i records at most i + 1 entries, the
\* last one NaN-filled, and none for the elements it never reached.  (Stated
\* for calls whose starting index is inside the lattice.)
C3_AtMostReachedEntries ==
  (LineDone /\ InRange /\ trajectory /\ ret = particle_lost) =>
    /\ Len(pos) - Len(pos0) <= i + 1
    /\ pos[Len(pos)] = nan_pos

\* C3 (amended): such a call always adds N + 1 entries, whatever i is: the
\* container's entries 0..i hold the entrance coordinates of the i + 1
\* elements reached, the last entry is the NaN-filled loss marker, and the
\* entries reserved for the elements never reached are still NaN-filled.
C3_FixedLengthOnLoss ==
  (LineDone /\ trajectory /\ ret = particle_lost) =>
    /\ Len(hist) = i + 1
    /\ i < nr_elements
    /\ Len(pos) = Len(pos0) + nr_elements + 1
    /\ pos[Len(pos)] = nan_pos
    /\ \A j \in 1..(i + 1) : pos[j] = hist[j].before
    /\ \A j \in (i + 2)..Len(pos) : j > Len(pos0) => pos[j] = nan_pos

C3_Witness ==
  /\ LineDone /\ trajectory /\ ret = particle_lost
  /\ pos0 = <<>>
  /\ nr_elements = 2
  /\ i = 0
  /\ pos = <<x0, nan_pos, nan_pos>>

\* C4 (as claimed): with vchamber_on, an element pass that leaves rx
\* non-finite or outside [hmin, hmax] of its element ends track_linepass with
\* one NaN-filled entry appended, lost_plane horizontal and particle_lost
\* returned; otherwise ry against [vmin, vmax] does the same with lost_plane
\* vertical.  (Stated for calls whose starting index is inside the lattice.)
C4_ApertureLossIsParticleLost ==
  \A j \in 1..Len(hist) :
    LET h  == hist[j]
        bx == ~isfinite(h.after.rx) \/ OutH(h)
        by == ~isfinite(h.after.ry) \/ OutV(h)
    IN  (vchamber_on /\ op # "none" /\ InRange /\ (bx \/ by)) =>
          /\ j = Len(hist)
          /\ LineReturned
          /\ LineRet = particle_lost
          /\ lost_plane = (IF bx THEN PlaneX ELSE PlaneY)
          /\ Len(Container) = EntryLen + (IF trajectory THEN nr_elements ELSE 0) + 1
          /\ Container[Len(Container)] = nan_pos

\* C4 (amended): the same, except for the status: particle_lost is returned
\* when the element's pass returned success, and the pass's own failure
\* status when it did not.
C4_ApertureLoss ==
  \A j \in 1..Len(hist) :
    LET h  == hist[j]
        bx == ~isfinite(h.after.rx) \/ OutH(h)
        by == ~isfinite(h.after.ry) \/ OutV(h)
    IN  (vchamber_on /\ op # "none" /\ (bx \/ by)) =>
          /\ j = Len(hist)
          /\ LineReturned
          /\ LineRet = (IF h.st = success THEN particle_lost ELSE h.st)
          /\ lost_plane = (IF bx THEN PlaneX ELSE PlaneY)
          /\ Len(Container) = EntryLen + (IF trajectory THEN nr_elements ELSE 0) + 1
          /\ Container[Len(Container)] = nan_pos

\* both planes fail after a pass that succeeded: the verdict is horizontal
C4_Witness ==
  /\ LineDone /\ vchamber_on /\ Len(hist) > 0
  /\ LastPass.st = success
  /\ OutH(LastPass) /\ OutV(LastPass)
  /\ lost_plane = PlaneX /\ plane0 = PlaneY
  /\ ret = particle_lost

\* C5: with vchamber_on false no track_linepass and no track_ringpass returns
\* particle_lost unless the last element pass left rx or ry non-finite: a
\* particle whose rx and ry are finite after every element is never reported
\* lost, whatever the elements' apertures.
C5_ApertureOffNoLoss ==
  (~vchamber_on /\ op # "none" /\ (ret = particle_lost \/ line_status = particle_lost)) =>
    /\ Len(hist) > 0
    /\ ~isfinite(LastPass.after.rx) \/ ~isfinite(LastPass.after.ry)

\* a finite coordinate outside the aperture went through a whole call unreported
C5_Witness ==
  /\ ~vchamber_on /\ pc = "idle" /\ ret = success /\ Len(hist) = 2
  /\ isfinite(hist[1].after.ry) /\ OutV(hist[1])
  /\ isfinite(hist[2].after.rx) /\ isfinite(hist[2].after.ry)

\* C6 (as claimed): a NaN in any of the six components after an element's map
\* ends track_linepass at that element with the particle reported lost,
\* whatever vchamber_on is.  (Stated for calls whose starting index is inside
\* the lattice.)
C6_AnyNaNIsLoss ==
  \A j \in 1..Len(hist) :
    LET a == hist[j].after
    IN  (op # "none" /\ InRange /\ NaN \in {a.rx, a.px, a.ry, a.py, a.de, a.dl}) =>
          /\ j = Len(hist)
          /\ LineReturned
          /\ LineRet # success
          /\ lost_plane \in {PlaneX, PlaneY}

\* C6 (amended): only the positions are looked at.  A non-finite rx (NaN
\* included) after an element's map ends track_linepass at that element,
\* with one NaN-filled entry appended and lost_plane horizontal, whatever
\* vchamber_on is; a non-finite ry does the same with lost_plane vertical when
\* the horizontal check passed.  The status is particle_lost when the
\* element's pass succeeded and the pass's status otherwise.
C6_NonFinitePositionIsLoss ==
  \A j \in 1..Len(hist) :
    LET h  == hist[j]
        bx == ~isfinite(h.after.rx)
        by == ~isfinite(h.after.ry)
    IN  (op # "none" /\ (bx \/ by)) =>
          /\ j = Len(hist)
          /\ LineReturned
          /\ LineRet = (IF h.st = success THEN particle_lost ELSE h.st)
          /\ bx => lost_plane = PlaneX
          /\ (~bx /\ ~(vchamber_on /\ OutH(h))) => lost_plane = PlaneY
          /\ Container[Len(Container)] = nan_pos

C6_Witness ==
  /\ LineDone /\ ~vchamber_on /\ Len(hist) = 2
  /\ hist[1].after.px = NaN /\ isfinite(hist[1].after.rx)
  /\ hist[2].after.rx = NaN
  /\ lost_plane = PlaneX /\ plane0 = PlaneY
  /\ ret = particle_lost

KnownPassMethods ==
  {pm_identity_pass, pm_drift_pass, pm_str_mpole_symplectic4_pass,
   pm_bnd_mpole_symplectic4_pass, pm_corrector_pass, pm_cavity_pass,
   pm_thinquad_pass, pm_thinsext_pass, pm_kicktable_pass}

\* C7: a status other than success returned by an element's pass (and
\* passmethod_not_defined is what an element with an unknown tag gets) is the
\* status track_linepass returns and the status track_ringpass returns, and
\* no element is applied after the one that failed.
C7_FailureBubbles ==
  /\ \A j \in 1..Len(hist) :
       ElementOf(hist[j].fam).pass_method \notin KnownPassMethods
         => hist[j].st = passmethod_not_defined
  /\ \A j \in 1..Len(hist) : hist[j].st # success => j = Len(hist)
  /\ (Len(hist) > 0 /\ LastPass.st # success) =>
       /\ failed = LastPass.st
       /\ LineReturned
       /\ LineRet = LastPass.st
       /\ pc = "idle" => ret = LastPass.st
  /\ failed # "none" =>
       /\ late = 0
       /\ Len(hist) > 0 /\ LastPass.st = failed
       /\ pc \in {"idle", "ring_ret"}

\* a ring call whose second turn hits a failing kicktable pass while the
\* position also fails the loss check
C7_Witness ==
  /\ RingDone /\ lost_turn = 1
  /\ ret = kicktable_out_of_range
  /\ failed = kicktable_out_of_range
  /\ lost_plane = PlaneX

\* C8: when track_linepass, or track_ringpass through it, returns a status
\* other than success, element_offset is the index of the element whose pass
\* or loss check ended the call; for a starting index k inside the lattice
\* that is (k + i) mod N for the iteration i that ended it.
C8_OffsetAtFailure ==
  (pc = "idle" /\ op # "none" /\ ret # success) =>
    /\ Len(hist) > 0
    /\ element_offset = LastPass.idx
    /\ Len(hist) = i + 1
    /\ InRange => /\ element_offset = (offset0 + i) % nr_elements
                  /\ LastPass.fam = lattice[element_offset + 1]

C8_Witness ==
  /\ LineDone /\ ret = particle_lost
  /\ nr_elements = 2 /\ offset0 = 1 /\ i = 1
  /\ element_offset = 0

\* C9 (as claimed): for every starting offset the caller passes, iteration i
\* of track_linepass applies lattice[(offset + i) mod N], no index outside
\* 0..N-1 is used to read the lattice, and a call that returns success has
\* applied every element once, in cyclic order.
C9_CyclicIndexing ==
  /\ pc # "crashed"
  /\ op = "line" =>
       /\ \A j \in 1..Len(hist) :
            /\ hist[j].idx \in 0..(nr_elements - 1)
            /\ hist[j].idx = (offset0 + j - 1) % nr_elements
            /\ hist[j].fam = lattice[((offset0 + j - 1) % nr_elements) + 1]
       /\ (pc = "idle" /\ ret = success) => Len(hist) = nr_elements

\* C10 (as claimed): track_ringpass with 0 turns returns success with
\* lost_turn = 0, leaves the particle as it was and adds one entry equal to
\* it to the output, whichever the trajectory flag.
C10_ZeroTurnsOneEntry ==
  (RingDone /\ nr_turns = 0) =>
    /\ ret = success
    /\ lost_turn = 0
    /\ orig_pos = x0
    /\ pos = Append(pos0, x0)

\* C10 (amended): with trajectory = false it adds one entry equal to the
\* particle; with trajectory = true it adds nothing, and the output is what
\* the caller passed.
C10_ZeroTurns ==
  (RingDone /\ nr_turns = 0) =>
    /\ ret = success
    /\ lost_turn = 0
    /\ orig_pos = x0
    /\ element_offset = offset0
    /\ hist = <<>>
    /\ pos = (IF ring_trajectory THEN pos0 ELSE Append(pos0, x0))

C10_Witness ==
  /\ RingDone /\ nr_turns = 0 /\ ~ring_trajectory
  /\ pos0 # <<>>
  /\ pos = Append(pos0, x0)
  /\ ret = success

\* C11: track_ringpass adds to its output (after what the caller left in it):
\* with trajectory = true, one entry after each completed turn, the particle
\* at the end of that turn -- T entries when every turn succeeds, as many
\* entries as turns completed when a turn fails; with trajectory = false,
\* nothing while the turns run and nothing when a turn fails, and one entry,
\* the final particle, when all T turns have completed.  The NaN-filled loss
\* marker of the inner track_linepass is never an entry of the output.
C11_RingOutput ==
  op = "ring" =>
    /\ Len(turn_end) = lost_turn
    /\ ring_trajectory => pos = pos0 \o turn_end
    /\ (pc = "ring" /\ lost_turn > 0) => turn_end[lost_turn] = orig_pos
    /\ (RingDone /\ ret = success) =>
         /\ Len(turn_end) = nr_turns
         /\ nr_turns > 0 => turn_end[nr_turns] = orig_pos
         /\ ~ring_trajectory => pos = Append(pos0, orig_pos)
    /\ (~ring_trajectory /\ ~(RingDone /\ ret = success)) => pos = pos0
    /\ (RingDone /\ ret # success) => Len(turn_end) < nr_turns
    /\ \A j \in 1..Len(pos) : pos[j] # nan_pos

\* the second of two turns is lost: one entry was added, and the marker stays
\* in the local vector
C11_Witness ==
  /\ RingDone /\ ring_trajectory /\ nr_turns = 2
  /\ ret = particle_lost
  /\ Len(pos) = Len(pos0) + 1
  /\ pos0 # <<>>
  /\ final_pos # <<>> /\ final_pos[Len(final_pos)] = nan_pos

\* C12: when the track_linepass of turn t (from 0) fails, track_ringpass
\* returns the status it returned, with lost_turn = t, the number of turns
\* completed before; when every turn succeeds it returns success with
\* lost_turn = T.
C12_LostTurn ==
  RingDone =>
    /\ (failed # "none" \/ line_status # success) => ret # success
    /\ ret # success =>
         /\ ret = line_status
         /\ lost_turn = Len(turn_end)
         /\ lost_turn < nr_turns
    /\ ret = success => lost_turn = nr_turns /\ Len(turn_end) = nr_turns

C12_Witness ==
  /\ RingDone /\ nr_turns = 2 /\ lost_turn = 1
  /\ ret = particle_lost
  /\ Len(turn_end) = 1
  /\ isfinite(turn_end[1].rx) /\ isfinite(turn_end[1].ry)

\* ------------------------------------------------------ flat-file claims
\* vocabulary: the read of the behaviour has returned; it read the file the
\* behaviour wrote
ReadDone  == fpc = "idle" /\ fop # <<>> /\ fop[Len(fop)] = "read"
RoundTrip == ReadDone /\ fop = <<"write", "read">>

\* the header fields of an Accelerator
Header(acc) ==
  <<acc.energy, acc.harmonic_number, acc.cavity_on, acc.radiation_on, acc.vchamber_on>>

\* C13 (as claimed): reading the file write_flat_file wrote for an
\* Accelerator succeeds and gives an Accelerator with the same header values
\* and a lattice of the same length whose elements equal the originals, one
\* by one, under Element::operator==.
C13_RoundTrip ==
  RoundTrip =>
    /\ fret = success
    /\ Header(accelerator) = Header(accelerator0)
    /\ Len(accelerator.lattice) = Len(accelerator0.lattice)
    /\ \A j \in 1..Len(accelerator0.lattice) :
         ElementEq(accelerator.lattice[j], accelerator0.lattice[j])

\* the fam_name lines of the file, and the j-th of them
FamLines == {k \in 1..Len(file) : file[k].cmd = "fam_name"}

NthFamLine(j) ==
  CHOOSE k \in FamLines : Cardinality({m \in FamLines : m < k}) = j - 1

\* the lines of the element block opened by the j-th fam_name line: up to the
\* next fam_name line or the end of the file
BlockOf(j) ==
  {m \in 1..Len(file) :
     /\ m > NthFamLine(j)
     /\ \A k \in FamLines : k > NthFamLine(j) => m < k}

\* the lines read into the element pushed j-th: from the fam_name line before
\* the push to the push
BlockPushed(j) ==
  {m \in 1..(committed[j].line - 1) :
     \A k \in FamLines : k < committed[j].line => k < m}

\* some line of the set has the key
HasKey(lines, key) == \E m \in lines : file[m].cmd = key

\* the lower limit the claimed rule gives for a block whose last line with
\* key kmax is line m: the value of the last kmin line before m in the
\* block, and minus the upper limit when there is none
ClaimedMin(lines, m, kmin) ==
  LET mins == {n \in lines : n < m /\ file[n].cmd = kmin}
  IN  IF mins = {} THEN Neg(file[m].d)
      ELSE file[CHOOSE n \in mins : \A n2 \in mins : n2 <= n].d

\* C14 (as claimed): in every element block of a file read with success, an
\* hmax line with no hmin line before it in the block gives hmin = -hmax, an
\* hmin line before it is kept; the same for vmin / vmax; whatever the
\* earlier blocks of the file hold.  (Stated for blocks with one hmax line and
\* no hmin line after it.)
C14_SymmetricAperture ==
  (ReadDone /\ fret = success) =>
    \A j \in 1..Len(committed) : \A m \in BlockPushed(j) :
      /\ (/\ file[m].cmd = "hmax"
          /\ \A n \in BlockPushed(j) : n > m => file[n].cmd \notin {"hmin", "hmax"}
          /\ \A n \in BlockPushed(j) : n < m => file[n].cmd # "hmax")
           => committed[j].el.hmin = ClaimedMin(BlockPushed(j), m, "hmin")
      /\ (/\ file[m].cmd = "vmax"
          /\ \A n \in BlockPushed(j) : n > m => file[n].cmd \notin {"vmin", "vmax"}
          /\ \A n \in BlockPushed(j) : n < m => file[n].cmd # "vmax")
           => committed[j].el.vmin = ClaimedMin(BlockPushed(j), m, "vmin")

\* the parameters with a line of their own whose writing depends on the value
OptionalKeys ==
  {"nr_steps", "hmin", "hmax", "vmin", "vmax"} \cup {ScalarKeys[k] : k \in 1..Len(ScalarKeys)}

\* C15 (as claimed): in the file write_flat_file wrote, the block of an
\* element has the line of a parameter exactly when the element's value is
\* not the value a default-constructed Element has; in particular an aperture
\* limit has no line at -DBL_MAX / +DBL_MAX and has one at every other value,
\* 0 included.
C15_OnlyNonDefaults ==
  fop = <<"write">> =>
    /\ Cardinality(FamLines) = Len(accelerator.lattice)
    /\ \A j \in 1..Len(accelerator.lattice) : \A key \in OptionalKeys :
         HasKey(BlockOf(j), key) <=> accelerator.lattice[j][key] # Element("", 0)[key]

\* C16 (as claimed): after a read that returned success the lattice has one
\* element per fam_name line of the file, in file order, with the name of
\* its line; each started as a default Element: a parameter with no line in
\* the element's block has its default value.
C16_OneElementPerFamName ==
  (ReadDone /\ fret = success) =>
    /\ Len(accelerator.lattice) = Cardinality(FamLines)
    /\ \A j \in 1..Len(accelerator.lattice) :
         /\ j <= Cardinality(FamLines) =>
              accelerator.lattice[j].fam_name = file[NthFamLine(j)].s
         /\ \A key \in PlainKeys \cup {"pass_method"} :
              (j <= Cardinality(FamLines) /\ ~HasKey(BlockOf(j), key))
                => accelerator.lattice[j][key] = Element("", 0)[key]

\* ---- Element::operator== ----

\* a comparison has been made
Compared == cmp # <<>>

\* both elements of the comparison are drifts, or both are identity elements
BothDriftOrIdentity(c) ==
  /\ c.a.pass_method = c.b.pass_method
  /\ c.a.pass_method \in {pm_drift_pass, pm_identity_pass}

\* the two elements have the same length and the same aperture
SameLengthAperture(c) ==
  /\ c.a.length = c.b.length
  /\ c.a.hmin = c.b.hmin /\ c.a.hmax = c.b.hmax
  /\ c.a.vmin = c.b.vmin /\ c.a.vmax = c.b.vmax

\* the fields operator== looks at after the shortcut, among those modelled
RemainingFields ==
  ScalarKeys \o <<"thin_KL", "thin_SL", "polynom_a", "polynom_b", "xlim">>

\* the two elements differ in a field operator== does not reach for a drift
DifferInRemaining(c) ==
  \E k \in 1..Len(RemainingFields) : c.a[RemainingFields[k]] # c.b[RemainingFields[k]]

\* C17 as stated: two elements that are both drift_pass or both identity_pass
\* and have the same length and aperture compare equal, whatever their
\* fam_name, nr_steps and remaining fields are.
C17_ShortcutAnyName ==
  Compared =>
    (BothDriftOrIdentity(cmp[1]) /\ SameLengthAperture(cmp[1]) => cmp[1].equal)

\* C17 amended: two elements that are both drift_pass or both identity_pass
\* and have the same fam_name, nr_steps, length and aperture compare equal
\* whatever their kicks, angles, polynomials and kicktable are; two elements
\* that differ in fam_name or in nr_steps compare unequal.
C17_Shortcut ==
  Compared =>
    /\ BothDriftOrIdentity(cmp[1]) /\ SameLengthAperture(cmp[1])
         /\ cmp[1].a.fam_name = cmp[1].b.fam_name
         /\ cmp[1].a.nr_steps = cmp[1].b.nr_steps
       => cmp[1].equal
    /\ cmp[1].a.fam_name # cmp[1].b.fam_name \/ cmp[1].a.nr_steps # cmp[1].b.nr_steps
       => ~cmp[1].equal

\* two identity elements of the same name, length and aperture that differ in
\* a kick have been compared, and found equal
C17_Witness ==
  /\ Compared
  /\ BothDriftOrIdentity(cmp[1]) /\ SameLengthAperture(cmp[1])
  /\ cmp[1].a.pass_method = pm_identity_pass
  /\ DifferInRemaining(cmp[1])
  /\ cmp[1].equal

\* ---- the aperture of an element ----

\* hmin <= hmax and vmin <= vmax
ApertureOrdered(el) == ~Lt(el.hmax, el.hmin) /\ ~Lt(el.vmax, el.vmin)

\* C18 as stated: every element built by the constructor or a factory, and
\* every element of the lattice after a successful read, has hmin <= hmax and
\* vmin <= vmax.
C18_ApertureOrdered ==
  /\ \A el \in Elements(accelerator0.lattice) : ApertureOrdered(el)
  /\ ReadDone /\ fret = success =>
       \A el \in Elements(accelerator.lattice) : ApertureOrdered(el)

\* ---- the polynomials of an element read ----

\* the pairs (order, value) the lines of a set give for a polynomial, each
\* with its place: line m, position i in the line
PairsGiven(lines, key) ==
  UNION { {<<m, n>> : n \in 1..Len(file[m].pairs)} : m \in {k \in lines : file[k].cmd = key} }

\* the pair at a place
PairAt(q) == file[q[1]].pairs[q[2]]

\* no later pair of the block gives the same order again
LastForOrder(lines, key, q) ==
  \A q2 \in PairsGiven(lines, key) :
    PairAt(q2)[1] = PairAt(q)[1] => (q2[1] < q[1] \/ (q2[1] = q[1] /\ q2[2] <= q[2]))

\* the polynomial holds what the pairs of the block give, and 0 elsewhere
HoldsPairs(lines, key, p) ==
  /\ \A q \in PairsGiven(lines, key) :
       /\ PairAt(q)[1] + 1 <= Len(p)
       /\ LastForOrder(lines, key, q) => p[PairAt(q)[1] + 1] = PairAt(q)[2]
  /\ \A k \in 1..Len(p) :
       (\A q \in PairsGiven(lines, key) : PairAt(q)[1] + 1 # k) => p[k] = 0

\* C19 as stated: an element pushed by the reader has polynom_a and polynom_b
\* of the same length, each covering every order its lines give, holding the
\* value of every pair given and 0 for every order not given; the length is
\* at least 3 for a bending-multipole element.
C19_Polynomials ==
  \A j \in 1..Len(committed) :
    /\ Len(committed[j].el.polynom_a) = Len(committed[j].el.polynom_b)
    /\ HoldsPairs(BlockPushed(j), "polynom_a", committed[j].el.polynom_a)
    /\ HoldsPairs(BlockPushed(j), "polynom_b", committed[j].el.polynom_b)
    /\ committed[j].el.pass_method = pm_bnd_mpole_symplectic4_pass
         => Len(committed[j].el.polynom_a) >= 3

\* ---- the errors of the reader ----

\* a pass_method line whose name is not in pm_dict
UnknownPassMethod(line) ==
  line.cmd = "pass_method" /\ \A k \in 1..Len(pm_dict) : pm_dict[k] # line.s

\* a line whose first word is no key of the reader, of two characters or more
UnknownKey(line) == line.cmd \notin KnownKeys /\ ~ShortLine(line)

\* the fam_name lines before line k whose element has been pushed when line
\* k is read: those with a name, but for the last fam_name line before k,
\* whose element is the one being accumulated
PushedBefore(k) ==
  {m \in FamLines :
     /\ m < k
     /\ file[m].s # ""
     /\ \E m2 \in FamLines : m < m2 /\ m2 < k}

\* the lattice has one element per fam_name line of the set, in file order
\* and with the name of the line
LatticeOf(lines) ==
  /\ Len(accelerator.lattice) = Cardinality(lines)
  /\ \A m \in lines :
       accelerator.lattice[Cardinality({m2 \in lines : m2 <= m})].fam_name = file[m].s

\* C20: a read of a file that cannot be opened returns file_not_found and
\* leaves the Accelerator as it was.  A read returns passmethod_not_defined
\* exactly at a pass_method line with an unknown name, and flat_file_error
\* exactly at a line with an unknown key that is not short; no such line is
\* passed over; and the lattice then holds the elements pushed before that
\* line and nothing else: not the previous lattice, not the element being
\* accumulated.
C20_ReaderErrors ==
  ReadDone =>
    /\ ~file_exists => fret = file_not_found /\ accelerator = accelerator0
    /\ file_exists =>
         /\ \A m \in 1..line_count : ~UnknownPassMethod(file[m]) /\ ~UnknownKey(file[m])
         /\ fret = passmethod_not_defined
              <=> (line_count < Len(file) /\ UnknownPassMethod(ThisLine))
         /\ fret = flat_file_error
              <=> (line_count < Len(file) /\ UnknownKey(ThisLine))
         /\ fret \in {passmethod_not_defined, flat_file_error} =>
              /\ LatticeOf(PushedBefore(line_count + 1))
              /\ accelerator.lattice = [j \in 1..Len(committed) |-> committed[j].el]
              /\ \A j \in 1..Len(committed) : committed[j].line <= line_count

\* a read of a file stopped with flat_file_error while an element with a
\* name was being accumulated, after one element had been pushed, on an
\* Accelerator that had a lattice before
C20_Witness ==
  /\ ReadDone
  /\ file_exists
  /\ fret = flat_file_error
  /\ accelerator0.lattice # <<>>
  /\ Len(accelerator.lattice) = 1
  /\ e.fam_name # ""

\* ---- the offset over a line and over the turns of a ring ----

\* a call has been made on a lattice with elements, from an index inside it
CallInRange == op # "none" /\ nr_elements > 0 /\ InRange

\* a track_linepass of the call has run and has returned success
LineSucceeded == LineReturned /\ hist # <<>> /\ LineRet = success

\* C21: on a lattice of N > 0 elements entered at an offset k < N, the offset
\* is inside 0..N-1 at every step of the call; a track_linepass that returned
\* success has left the offset at k and lost_plane at no_plane; every
\* track_linepass of a track_ringpass starts at element k; and a
\* track_ringpass of T >= 1 turns that returned success has left the offset
\* at k and lost_plane at no_plane.
C21_OffsetCarriesOver ==
  CallInRange =>
    /\ element_offset \in 0..(nr_elements - 1)
    /\ LineSucceeded => element_offset = offset0 /\ lost_plane = PlaneNone
    /\ (pc = "line" /\ i = 0) => element_offset = offset0
    /\ hist # <<>> => hist[1].idx = offset0
    /\ \A k \in 1..Len(hist) : hist[k].idx = (offset0 + k - 1) % nr_elements
    /\ (RingDone /\ ret = success /\ nr_turns >= 1)
         => element_offset = offset0 /\ lost_plane = PlaneNone

\* a track_ringpass of two turns on a lattice of two elements, entered at the
\* second element with lost_plane set by the caller, has returned success
C21_Witness ==
  /\ CallInRange
  /\ RingDone
  /\ ret = success
  /\ nr_turns = 2
  /\ lost_turn = 2
  /\ nr_elements = 2
  /\ offset0 = 1
  /\ plane0 # PlaneNone
  /\ element_offset = 1
  /\ Len(hist) = 2

\* ---- a failing pass and the loss check ----

\* lost_plane as it was when the running or last track_linepass was entered:
\* what the caller passed, or no_plane after a turn of the ring that succeeded
PlaneAtEntry == IF caller = "ring" /\ lost_turn > 0 THEN PlaneNone ELSE plane0

\* the position a pass left fails the horizontal / the vertical loss check
FailsCheckX(h) == ~isfinite(h.after.rx) \/ (vchamber_on /\ OutH(h))
FailsCheckY(h) == ~isfinite(h.after.ry) \/ (vchamber_on /\ OutV(h))

\* C22: an element pass that returned a failure status s ends track_linepass
\* with s returned, never particle_lost.  When the position it left fails the
\* loss check, one NaN-filled entry has been appended and lost_plane is the
\* plane that failed (horizontal first); when it passes the loss check,
\* nothing has been appended and lost_plane is as it was at entry.
\* particle_lost is returned only after a pass that returned success.
C22_LossCheckBeforeStatus ==
  op # "none" =>
    /\ \A j \in 1..Len(hist) :
         hist[j].st # success =>
           /\ j = Len(hist)
           /\ LineReturned
           /\ LineRet = hist[j].st
           /\ LineRet # particle_lost
           /\ (FailsCheckX(hist[j]) \/ FailsCheckY(hist[j])) =>
                /\ Len(Container) = EntryLen + (IF trajectory THEN nr_elements ELSE 0) + 1
                /\ Container[Len(Container)] = nan_pos
                /\ lost_plane = (IF FailsCheckX(hist[j]) THEN PlaneX ELSE PlaneY)
           /\ ~(FailsCheckX(hist[j]) \/ FailsCheckY(hist[j])) =>
                /\ Len(Container) = EntryLen + (IF trajectory THEN nr_elements ELSE 0)
                /\ lost_plane = PlaneAtEntry
    /\ (LineReturned /\ LineRet = particle_lost) =>
         Len(hist) > 0 /\ LastPass.st = success

\* a kicktable pass failed on a particle whose ry is not a number, with the
\* vacuum chamber off: the entry is appended, the plane is vertical, the
\* status is the pass's
C22_Witness ==
  /\ LineDone /\ ~vchamber_on /\ InRange
  /\ Len(hist) > 0
  /\ LastPass.st = kicktable_out_of_range
  /\ ~isfinite(LastPass.after.ry)
  /\ ret = kicktable_out_of_range
  /\ lost_plane = PlaneY /\ plane0 = PlaneNone
  /\ pos[Len(pos)] = nan_pos

====
